---- MODULE Spec2Model ----
(***************************************************************************)
(* Time Management Tracker (PeterBerestnev/TMS): the store of categories   *)
(* and time entries behind the FastAPI handlers of app/main.py, the        *)
(* request-scoped session of app/database.py, and the pure computations of *)
(* the calendar and statistics views.                                      *)
(*                                                                         *)
(* A request is served in steps: get_db opens its session, the handler     *)
(* reads (db.get / select), the handler commits, get_db closes the         *)
(* session.  Every read and every commit is one SQLite statement group, so *)
(* requests served by different workers over the same database file        *)
(* interleave between those steps.  SQLite is used as app/database.py       *)
(* configures it: no "PRAGMA foreign_keys=ON" is issued, so the FOREIGN KEY *)
(* of time_entries.category_id is declared but not enforced; the UNIQUE    *)
(* constraint of categories.name is enforced; "id INTEGER PRIMARY KEY"      *)
(* without AUTOINCREMENT gives a new row the id max(id)+1.                  *)
(*                                                                         *)
(* Category names are modelled by their rank in the collation order,       *)
(* dates by their proleptic Gregorian ordinal, durations by whole hours.   *)
(* The columns color, description and comment take no part in any          *)
(* decision of the handlers and are left out.                              *)
(***************************************************************************)
EXTENDS Integers, Sequences, FiniteSets, TLC

\* ------------------------------------------------------------------ bounds
MaxCategoryId == 2
MaxEntryId == 2
MaxName == 2
MaxDate == 2
MaxDuration == 2

Reqs == {"r1", "r2"}

CategoryIds == 1..MaxCategoryId
EntryIds == 1..MaxEntryId
Names == 1..MaxName
Dates == 1..MaxDate
Durations == 1..MaxDuration

VARIABLES
    categories,     \* table categories: set of [id, name]
    time_entries,   \* table time_entries: set of rows
    pc,             \* per request: where its handler stands
    request,        \* per request: the route and the bound form / path values
    loaded,         \* per request: what the session has read (entry.date, category.time_entries)
    session,        \* per request: the session get_db yielded: "none" before the
                    \* first request, then "open" or "closed"
    response,       \* per request: status code and redirect location
    deleted,        \* history: the ids removed from each table so far, kept
                    \* by the specification that asks for it (deleted.kept)
    calendar,       \* the context calendar_view last rendered
    stats           \* the context stats_view last rendered

vars == <<categories, time_entries, pc, request, loaded, session, response,
          deleted, calendar, stats>>

storeVars == <<categories, time_entries, deleted>>
reqVars == <<pc, request, loaded, session, response>>
viewVars == <<calendar, stats>>

\* ------------------------------------------------------------ values
None == [none |-> TRUE]

NoRequest == [op |-> "none"]
NoResponse == [status |-> 0, location |-> <<>>]
NothingLoaded == [date_value |-> 0, time_entries |-> {}]

Max(S) == CHOOSE x \in S : \A y \in S : y <= x

Min(S) == CHOOSE x \in S : \A y \in S : x <= y

\* ------------------------------------------------- datetime.strptime "%H:%M"
Digits == <<"0", "1", "2", "3", "4", "5", "6", "7", "8", "9">>

IsDigit(c) == \E i \in 1..10 : Digits[i] = c

DigitValue(c) == (CHOOSE i \in 1..10 : Digits[i] = c) - 1

Number(ds) ==
    IF Len(ds) = 1 THEN DigitValue(ds[1])
    ELSE 10 * DigitValue(ds[1]) + DigitValue(ds[2])

IsNumber(ds) == Len(ds) \in 1..2 /\ \A i \in 1..Len(ds) : IsDigit(ds[i])

ValueError == [error |-> "ValueError"]

\* strptime(s, "%H:%M").time(): hour 0..23 and minute 0..59, one or two digits
\* each, separated by one colon, nothing else in the string.
strptime(s) ==
    LET colons == {i \in 1..Len(s) : s[i] = ":"}
    IN  IF Cardinality(colons) # 1 THEN ValueError
        ELSE LET k == CHOOSE i \in colons : TRUE
                 hs == SubSeq(s, 1, k - 1)
                 ms == SubSeq(s, k + 1, Len(s))
             IN  IF /\ IsNumber(hs) /\ Number(hs) <= 23
                    /\ IsNumber(ms) /\ Number(ms) <= 59
                 THEN [hour |-> Number(hs), minute |-> Number(ms)]
                 ELSE ValueError

\* datetime.combine(date_value, strptime(...).time()), or None for "".
combine_time(date_value, s) ==
    IF s = <<>> THEN None
    ELSE LET t == strptime(s)
         IN  IF t = ValueError THEN ValueError
             ELSE [date |-> date_value, hour |-> t.hour, minute |-> t.minute]

\* ------------------------------------------------------------ request inputs
\* The (start_time_str, end_time_str) pairs a form is submitted with: both
\* empty, both well-formed, a start that is no time of day, an end that is none.
NoTimes == << <<>>, <<>> >>
GoodTimes == << <<"0", "9", ":", "3", "0">>, <<"1", "7", ":", "5">> >>
BadStart == << <<"2", "4", ":", "0", "0">>, <<>> >>
BadEnd == << <<>>, <<"9", "h">> >>

\* The (date_value, duration_hours, times) a form is submitted with.
AddEntryCases ==
    { <<1, 1, NoTimes>>, <<MaxDate, MaxDuration, GoodTimes>>,
      <<1, MaxDuration, BadStart>>, <<MaxDate, 1, BadEnd>> }

AddEntryForms ==
    { [op |-> "add_entry", date_value |-> x[1], category_id |-> c,
       duration_hours |-> x[2], start_time_str |-> x[3][1],
       end_time_str |-> x[3][2]] :
        c \in CategoryIds, x \in AddEntryCases }

DeleteEntryPaths == { [op |-> "delete_entry", entry_id |-> i] : i \in EntryIds }

AddCategoryForms == { [op |-> "add_category", name |-> n] : n \in Names }

DeleteCategoryPaths ==
    { [op |-> "delete_category", category_id |-> i] : i \in CategoryIds }

Requests ==
    AddEntryForms \cup DeleteEntryPaths \cup AddCategoryForms \cup DeleteCategoryPaths

\* ------------------------------------------------------------ the store
ids(table) == { row.id : row \in table }

\* An allocator that fills gaps: the smallest id not in use.
NextRowId_lowest_free(table) ==
    Min({ i \in 1..(Cardinality(table) + 1) : i \notin ids(table) })

\* SQLite rowid of an INSERT into a table with INTEGER PRIMARY KEY and no
\* AUTOINCREMENT: one more than the largest id in use, 1 for an empty table.
NextRowId(table) == IF table = {} THEN 1 ELSE Max(ids(table)) + 1

\* db.get(Category, category_id): the rows with that primary key (none or one).
get_category(category_id) == { c \in categories : c.id = category_id }

\* db.get(TimeEntry, entry_id)
get_entry(entry_id) == { e \in time_entries : e.id = entry_id }

\* The pre-check of add_category dropped: no row is ever found.
category_by_name_unchecked(name) == {}

\* select(Category).where(Category.name == name).scalar_one_or_none()
category_by_name(name) == { c \in categories : c.name = name }

\* Column(String(100), unique=True): an INSERT of a stored name fails.
name_is_taken(name) == \E c \in categories : c.name = name

\* Category.time_entries, cascade="all, delete-orphan": the primary keys of the
\* children db.delete(category) loads to delete with it.
cascade_time_entries(category_id) ==
    { e.id : e \in { x \in time_entries : x.category_id = category_id } }

\* duration_hours not passed to the constructor: the column default 0.0 is stored.
TimeEntry_default_duration(form, id) ==
    [id |-> id, date |-> form.date_value, category_id |-> form.category_id,
     duration_hours |-> 0,
     start_time |-> combine_time(form.date_value, form.start_time_str),
     end_time |-> combine_time(form.date_value, form.end_time_str)]

\* TimeEntry(date=..., category_id=..., duration_hours=..., start_time=..., end_time=...)
TimeEntry(form, id) ==
    [id |-> id, date |-> form.date_value, category_id |-> form.category_id,
     duration_hours |-> form.duration_hours,
     start_time |-> combine_time(form.date_value, form.start_time_str),
     end_time |-> combine_time(form.date_value, form.end_time_str)]

Category(form, id) == [id |-> id, name |-> form.name]

\* RedirectResponse(url=f"/?day={date_value.isoformat()}", status_code=303)
DayView(date_value) == [status |-> 303, location |-> <<"/?day=", date_value>>]

CategoriesView == [status |-> 303, location |-> <<"/categories">>]

\* HTTPException(status_code=...) and the 500 of an unhandled exception
Error(status) == [status |-> status, location |-> <<>>]

\* The history of removed ids after the rows `cats` and `entries` are deleted.
Removed(cats, entries) ==
    IF deleted.kept
    THEN [deleted EXCEPT !.categories = @ \cup ids(cats),
                         !.time_entries = @ \cup ids(entries)]
    ELSE deleted

\* ------------------------------------------------------------ requests
InFlight(op) == { q \in Reqs : pc[q] \in {"handler", "commit"} /\ request[q].op = op }

\* Ids stay within the model's bounds: a new add request is taken only while
\* the inserts already in flight leave room for one more row id.
Room(q) ==
    /\ q.op = "add_entry" =>
         NextRowId(time_entries) + Cardinality(InFlight("add_entry")) <= MaxEntryId
    /\ q.op = "add_category" =>
         NextRowId(categories) + Cardinality(InFlight("add_category")) <= MaxCategoryId

\* get_db up to its yield: db = SessionLocal().
get_db(r) ==
    /\ pc[r] = "idle"
    /\ \E q \in Requests :
          /\ Room(q)
          /\ request' = [request EXCEPT ![r] = q]
    /\ pc' = [pc EXCEPT ![r] = "handler"]
    /\ session' = [session EXCEPT ![r] = "open"]
    /\ response' = [response EXCEPT ![r] = NoResponse]
    /\ loaded' = [loaded EXCEPT ![r] = NothingLoaded]
    /\ UNCHANGED <<storeVars, viewVars>>

Raise(r, status) ==
    /\ pc' = [pc EXCEPT ![r] = "raised"]
    /\ response' = [response EXCEPT ![r] = Error(status)]

Return(r, resp) ==
    /\ pc' = [pc EXCEPT ![r] = "done"]
    /\ response' = [response EXCEPT ![r] = resp]

\* add_entry, lines 67-86: look the category up, parse the times, db.add(entry).
add_entry_check(r) ==
    /\ pc[r] = "handler" /\ request[r].op = "add_entry"
    /\ LET form == request[r]
       IN  IF get_category(form.category_id) = {}
           THEN Raise(r, 404)
           ELSE IF \/ combine_time(form.date_value, form.start_time_str) = ValueError
                   \/ combine_time(form.date_value, form.end_time_str) = ValueError
                THEN Raise(r, 500)
                ELSE /\ pc' = [pc EXCEPT ![r] = "commit"]
                     /\ UNCHANGED response
    /\ UNCHANGED <<request, loaded, session, storeVars, viewVars>>

\* add_entry, lines 87-89: db.commit() inserts the row; redirect to the day view.
add_entry_commit(r) ==
    /\ pc[r] = "commit" /\ request[r].op = "add_entry"
    /\ time_entries' =
         time_entries \cup {TimeEntry(request[r], NextRowId(time_entries))}
    /\ Return(r, DayView(request[r].date_value))
    /\ UNCHANGED <<categories, deleted, request, loaded, session, viewVars>>

\* delete_entry, lines 94-98: look the entry up, keep its date, db.delete(entry).
delete_entry_check(r) ==
    /\ pc[r] = "handler" /\ request[r].op = "delete_entry"
    /\ LET found == get_entry(request[r].entry_id)
       IN  IF found = {}
           THEN Raise(r, 404) /\ UNCHANGED loaded
           ELSE /\ pc' = [pc EXCEPT ![r] = "commit"]
                /\ loaded' = [loaded EXCEPT ![r].date_value =
                                 (CHOOSE e \in found : TRUE).date]
                /\ UNCHANGED response
    /\ UNCHANGED <<request, session, storeVars, viewVars>>

\* delete_entry, lines 99-100: db.commit() deletes the row by primary key.
delete_entry_commit(r) ==
    /\ pc[r] = "commit" /\ request[r].op = "delete_entry"
    /\ LET gone == get_entry(request[r].entry_id)
       IN  /\ time_entries' = time_entries \ gone
           /\ deleted' = Removed({}, gone)
    /\ Return(r, DayView(loaded[r].date_value))
    /\ UNCHANGED <<categories, request, loaded, session, viewVars>>

\* add_category, lines 119-124: the name pre-check, db.add(category).
add_category_check(r) ==
    /\ pc[r] = "handler" /\ request[r].op = "add_category"
    /\ IF category_by_name(request[r].name) # {}
       THEN Raise(r, 400)
       ELSE /\ pc' = [pc EXCEPT ![r] = "commit"]
            /\ UNCHANGED response
    /\ UNCHANGED <<request, loaded, session, storeVars, viewVars>>

\* add_category, lines 125-126: db.commit() inserts the row; the UNIQUE
\* constraint of categories.name makes the INSERT fail (IntegrityError,
\* unhandled: 500) when the name has been stored since the pre-check.
add_category_commit(r) ==
    /\ pc[r] = "commit" /\ request[r].op = "add_category"
    /\ IF name_is_taken(request[r].name)
       THEN Raise(r, 500) /\ UNCHANGED categories
       ELSE /\ categories' =
                 categories \cup {Category(request[r], NextRowId(categories))}
            /\ Return(r, CategoriesView)
    /\ UNCHANGED <<time_entries, deleted, request, loaded, session, viewVars>>

\* delete_category, lines 131-133: look the category up.
delete_category_check(r) ==
    /\ pc[r] = "handler" /\ request[r].op = "delete_category"
    /\ IF get_category(request[r].category_id) = {}
       THEN Raise(r, 404)
       ELSE /\ pc' = [pc EXCEPT ![r] = "delete"]
            /\ UNCHANGED response
    /\ UNCHANGED <<request, loaded, session, storeVars, viewVars>>

\* delete_category, line 134: db.delete(category) loads category.time_entries
\* for the cascade.
delete_category_delete(r) ==
    /\ pc[r] = "delete" /\ request[r].op = "delete_category"
    /\ loaded' = [loaded EXCEPT ![r].time_entries =
                     cascade_time_entries(request[r].category_id)]
    /\ pc' = [pc EXCEPT ![r] = "commit"]
    /\ UNCHANGED <<request, session, response, storeVars, viewVars>>

\* delete_category, lines 135-136: db.commit() deletes the loaded children and
\* the category, each by primary key.
delete_category_commit(r) ==
    /\ pc[r] = "commit" /\ request[r].op = "delete_category"
    /\ LET children == { e \in time_entries : e.id \in loaded[r].time_entries }
           gone == get_category(request[r].category_id)
       IN  /\ time_entries' = time_entries \ children
           /\ categories' = categories \ gone
           /\ deleted' = Removed(gone, children)
    /\ Return(r, CategoriesView)
    /\ UNCHANGED <<request, loaded, session, viewVars>>

\* db.close() placed after the yield without try/finally: it runs only when the
\* handler returned.
get_db_close_on_return(r) ==
    IF pc[r] = "done" THEN [session EXCEPT ![r] = "closed"] ELSE session

\* get_db after its yield: "finally: db.close()", on return and on raise alike.
get_db_finally(r) == [session EXCEPT ![r] = "closed"]

\* The request ends: the dependency's exit code runs and the response leaves.
get_db_close(r) ==
    /\ pc[r] \in {"done", "raised"}
    /\ session' = get_db_finally(r)
    /\ pc' = [pc EXCEPT ![r] = "idle"]
    /\ request' = [request EXCEPT ![r] = NoRequest]
    /\ loaded' = [loaded EXCEPT ![r] = NothingLoaded]
    /\ response' = [response EXCEPT ![r] = NoResponse]
    /\ UNCHANGED <<storeVars, viewVars>>

Handler(r) ==
    \/ add_entry_check(r)
    \/ add_entry_commit(r)
    \/ delete_entry_check(r)
    \/ delete_entry_commit(r)
    \/ add_category_check(r)
    \/ add_category_commit(r)
    \/ delete_category_check(r)
    \/ delete_category_delete(r)
    \/ delete_category_commit(r)
    \/ get_db_close(r)

\* ------------------------------------------------------------ datetime.date
\* The proleptic Gregorian calendar of Python's date: date(y, m, d).toordinal(),
\* date.fromordinal(n), and date +/- timedelta(days=k) as ordinal arithmetic.
is_leap(year) == year % 4 = 0 /\ (year % 100 # 0 \/ year % 400 = 0)

DAYS_IN_MONTH == <<31, 28, 31, 30, 31, 30, 31, 31, 30, 31, 30, 31>>

DAYS_BEFORE_MONTH == <<0, 31, 59, 90, 120, 151, 181, 212, 243, 273, 304, 334>>

days_before_year(year) ==
    LET y == year - 1
    IN  y * 365 + (y \div 4) - (y \div 100) + (y \div 400)

days_before_month(year, month) ==
    DAYS_BEFORE_MONTH[month] + (IF month > 2 /\ is_leap(year) THEN 1 ELSE 0)

\* date(year, month, day).toordinal()
ymd2ord(year, month, day) ==
    days_before_year(year) + days_before_month(year, month) + day

\* date.fromordinal(n), as <<year, month, day>>
ord2ymd(ordinal) ==
    LET n0 == ordinal - 1
        n400 == n0 \div 146097
        r400 == n0 % 146097
        n100 == r400 \div 36524
        r100 == r400 % 36524
        n4 == r100 \div 1461
        r4 == r100 % 1461
        n1 == r4 \div 365
        n == r4 % 365
        year == n400 * 400 + 1 + n100 * 100 + n4 * 4 + n1
    IN  IF n1 = 4 \/ n100 = 4 THEN <<year - 1, 12, 31>>
        ELSE LET leapyear == n1 = 3 /\ (n4 # 24 \/ n100 = 3)
                 guess == (n + 50) \div 32
                 before == DAYS_BEFORE_MONTH[guess]
                              + (IF guess > 2 /\ leapyear THEN 1 ELSE 0)
                 month == IF before > n THEN guess - 1 ELSE guess
                 preceding ==
                     IF before > n
                     THEN before - (DAYS_IN_MONTH[month]
                                      + (IF month = 2 /\ leapyear THEN 1 ELSE 0))
                     ELSE before
             IN  <<year, month, n - preceding + 1>>

\* ------------------------------------------------------------ aggregates
\* ORDER BY ... ascending over distinct keys
RECURSIVE Ascending(_)
Ascending(S) ==
    IF S = {} THEN <<>>
    ELSE LET m == Min(S) IN <<m>> \o Ascending(S \ {m})

\* func.sum(TimeEntry.duration_hours) over a group of rows
RECURSIVE sum_duration_hours(_)
sum_duration_hours(rows) ==
    IF rows = {} THEN 0
    ELSE LET e == CHOOSE x \in rows : TRUE
         IN  e.duration_hours + sum_duration_hours(rows \ {e})

\* select(TimeEntry.date, func.sum(TimeEntry.duration_hours))
\*   .where(date >= start, date <= end).group_by(date).order_by(date)
totals_by_date(start, end) ==
    LET rows == { e \in time_entries : e.date >= start /\ e.date <= end }
        keys == Ascending({ e.date : e \in rows })
    IN  [i \in 1..Len(keys) |->
            <<keys[i], sum_duration_hours({ e \in rows : e.date = keys[i] })>>]

\* ------------------------------------------------------------ calendar_view
\* lines 159-163: while current <= end_date: days.append(current); current += 1 day
RECURSIVE days_loop(_, _, _)
days_loop(current, end_date, days) ==
    IF current <= end_date
    THEN days_loop(current + 1, end_date, Append(days, ord2ymd(current)))
    ELSE days

\* lines 152-157: the first day of the month and the day before the next month
month_start(year, month) == ymd2ord(year, month, 1)

\* December handled like the other months but for the year: January of the
\* same year is taken for the next month.
month_end_same_year(year, month) ==
    LET next_month == IF month = 12 THEN ymd2ord(year, 1, 1)
                      ELSE ymd2ord(year, month + 1, 1)
    IN  next_month - 1

month_end(year, month) ==
    LET next_month == IF month = 12 THEN ymd2ord(year + 1, 1, 1)
                      ELSE ymd2ord(year, month + 1, 1)
    IN  next_month - 1

month_days(year, month) ==
    days_loop(month_start(year, month), month_end(year, month), <<>>)

YearSpan == 5

Years == {1900, 2000, 2100} \cup (2020..(2020 + YearSpan))

Months == 1..12

calendar_view(year, month) ==
    /\ calendar' =
         [year |-> year, month |-> month, days |-> month_days(year, month),
          totals |-> totals_by_date(month_start(year, month), month_end(year, month))]
    /\ UNCHANGED <<storeVars, reqVars, stats>>

\* ------------------------------------------------------------ stats_view
\* The query without its where clause: every joined row is aggregated.
joined_rows_unfiltered(start, end) ==
    { p \in categories \X time_entries : p[2].category_id = p[1].id }

\* select(Category.name, func.sum(TimeEntry.duration_hours))
\*   .join(TimeEntry, TimeEntry.category_id == Category.id)
\*   .where(TimeEntry.date >= start, TimeEntry.date <= end)
\*   .group_by(Category.name).order_by(Category.name)
joined_rows(start, end) ==
    { p \in categories \X time_entries :
        /\ p[2].category_id = p[1].id
        /\ p[2].date >= start /\ p[2].date <= end }

per_category(start, end) ==
    LET rows == joined_rows(start, end)
        keys == Ascending({ p[1].name : p \in rows })
    IN  [i \in 1..Len(keys) |->
            <<keys[i],
              sum_duration_hours({ p[2] : p \in { q \in rows : q[1].name = keys[i] } })>>]

\* float(hours or 0): a falsy sum (the NULL of an empty group, or 0.0) reads 0.0;
\* a group of the inner join holds a row, so its sum is a number.
hours_or_0(hours) == IF hours = 0 THEN 0 ELSE hours

\* lines 192-199: Optional[date] query parameters (<<>> when absent, <<d>> when
\* given) and the defaults of end and start
resolve_end(end, today) == IF end = <<>> THEN today ELSE end[1]

resolve_start(start, end) == IF start = <<>> THEN end - 6 ELSE start[1]

stats_view(start_param, end_param, today) ==
    LET end == resolve_end(end_param, today)
        start == resolve_start(start_param, end)
        pcat == per_category(start, end)
        pday == totals_by_date(start, end)
    IN  /\ stats' =
             [start |-> start, end |-> end,
              per_category |-> pcat, per_day |-> pday,
              cat_labels |-> [i \in 1..Len(pcat) |-> pcat[i][1]],
              cat_values |-> [i \in 1..Len(pcat) |-> hours_or_0(pcat[i][2])],
              day_labels |-> [i \in 1..Len(pday) |-> pday[i][1]],
              day_values |-> [i \in 1..Len(pday) |-> hours_or_0(pday[i][2])]]
        /\ UNCHANGED <<storeVars, reqVars, calendar>>

\* ------------------------------------------------------------ specifications
NoCalendar == [year |-> 0, month |-> 0, days |-> <<>>, totals |-> <<>>]

NoStats ==
    [start |-> 0, end |-> 0, per_category |-> <<>>, per_day |-> <<>>,
     cat_labels |-> <<>>, cat_values |-> <<>>, day_labels |-> <<>>, day_values |-> <<>>]

Quiet ==
    /\ pc = [r \in Reqs |-> "idle"]
    /\ request = [r \in Reqs |-> NoRequest]
    /\ loaded = [r \in Reqs |-> NothingLoaded]
    /\ session = [r \in Reqs |-> "none"]
    /\ response = [r \in Reqs |-> NoResponse]
    /\ calendar = NoCalendar
    /\ stats = NoStats

NoHistory == [categories |-> {}, time_entries |-> {}, kept |-> FALSE]

Init ==
    /\ categories = {}
    /\ time_entries = {}
    /\ deleted = NoHistory
    /\ Quiet

Next == \E r \in Reqs : get_db(r) \/ Handler(r)

Spec == Init /\ [][Next]_vars

\* One worker, whose event loop runs a handler body to its end (the bodies hold
\* no await): a request is taken only when no other is being served.
Alone(r) == \A q \in Reqs \ {r} : pc[q] = "idle"

get_db_alone(r) == Alone(r) /\ get_db(r)

SeqNext == \E r \in Reqs : get_db_alone(r) \/ Handler(r)

SeqSpec == Init /\ [][SeqNext]_vars

\* A request that has been taken is served to its end: the server keeps running
\* the handler and the exit code of its dependency.
FairSpec == Spec /\ \A r \in Reqs : WF_vars(Handler(r))

\* The same server, with the history of the removed ids kept.
HistoryInit ==
    /\ categories = {}
    /\ time_entries = {}
    /\ deleted = [NoHistory EXCEPT !.kept = TRUE]
    /\ Quiet

HistorySpec == HistoryInit /\ [][Next]_vars

\* The calendar view of any month of the years at hand.
CalendarNext == \E year \in Years, month \in Months : calendar_view(year, month)

CalendarSpec == Init /\ [][CalendarNext]_vars

\* The statistics view over any store the tables' constraints allow (primary
\* keys and category names unique; category_id unchecked) and any range.
CategoryTables ==
    { t \in SUBSET [id : CategoryIds, name : Names] :
        \A a, b \in t : (a.id = b.id \/ a.name = b.name) => a = b }

EntryRows(id) ==
    [id : {id}, date : Dates, category_id : CategoryIds,
     duration_hours : Durations, start_time : {None}, end_time : {None}]

EntryTables ==
    UNION { { { f[i] : i \in I } : f \in { g \in [I -> UNION { EntryRows(i) : i \in I }] :
                                              \A i \in I : g[i].id = i } } :
            I \in SUBSET EntryIds }

StatsInit ==
    /\ categories \in CategoryTables
    /\ time_entries \in EntryTables
    /\ deleted = NoHistory
    /\ Quiet

OptionalDates == {<<>>} \cup { <<d>> : d \in Dates }

StatsNext ==
    \E start \in OptionalDates, end \in OptionalDates, today \in Dates :
        stats_view(start, end, today)

StatsSpec == StatsInit /\ [][StatsNext]_vars

\* ------------------------------------------------------------ properties
\* The step of request r that leaves the place `at` of route `op`.
Leaves(r, op, at) == pc[r] = at /\ request[r].op = op /\ pc'[r] # at

StoreUnchanged == categories' = categories /\ time_entries' = time_entries

\* A time-of-day field as the forms submit it: empty, well-formed, or neither.
WellFormedTime(s) == s \in {<<>>, GoodTimes[1], GoodTimes[2]}

WellFormed(form) ==
    form.op = "add_entry" =>
        WellFormedTime(form.start_time_str) /\ WellFormedTime(form.end_time_str)

\* C1: in every reachable state, whatever the interleaving of the check and
\* commit steps of add_entry, delete_entry, add_category and delete_category
\* requests, every TimeEntry's category_id is the id of a stored Category.
C1_EveryEntryHasItsCategory ==
    \A e \in time_entries : \E c \in categories : c.id = e.category_id

\* C2: add_category with the name of a stored Category answers 400 and writes
\* nothing: both tables are the same after the call as before, and exactly one
\* category bears that name.
C2_DuplicateNameRejected ==
    [][\A r \in Reqs :
        /\ (/\ Leaves(r, "add_category", "handler")
            /\ \E c \in categories : c.name = request[r].name)
           => /\ pc'[r] = "raised"
              /\ response'[r] = [status |-> 400, location |-> <<>>]
              /\ StoreUnchanged
              /\ Cardinality({ c \in categories' : c.name = request[r].name }) = 1
        /\ (/\ Leaves(r, "add_category", "raised")
            /\ response[r].status = 400)
           => pc'[r] = "idle" /\ StoreUnchanged]_vars

C2_Witness ==
    \E r \in Reqs :
        /\ pc[r] = "raised" /\ request[r].op = "add_category"
        /\ response[r].status = 400
        /\ Cardinality({ c \in categories : c.name = request[r].name }) = 1

\* C3: the commit of delete_category on a category id C that its lookup found
\* removes Category C and every TimeEntry whose category_id is C, in that one
\* step, leaves every other Category and every TimeEntry of another category
\* as they were, and answers 303; no TimeEntry referencing C is left.
C3_CascadeDelete ==
    [][\A r \in Reqs :
        Leaves(r, "delete_category", "commit")
        => LET C == request[r].category_id
           IN  /\ categories' = { c \in categories : c.id # C }
               /\ time_entries' = { e \in time_entries : e.category_id # C }
               /\ \A e \in time_entries' : e.category_id # C
               /\ pc'[r] = "done"
               /\ response'[r] = [status |-> 303, location |-> <<"/categories">>]]_vars

\* C4: add_entry with a category_id that is no stored Category answers 404 and
\* creates no row (the store is unchanged); when the category is stored and
\* the fields are well-formed the request goes on to its commit, which adds
\* exactly one TimeEntry, with the given date, category_id and duration_hours,
\* and answers 303 with the day view of that date.
C4_AddEntry ==
    [][\A r \in Reqs :
        /\ (/\ Leaves(r, "add_entry", "handler")
            /\ \A c \in categories : c.id # request[r].category_id)
           => /\ pc'[r] = "raised"
              /\ response'[r] = [status |-> 404, location |-> <<>>]
              /\ StoreUnchanged
        /\ (/\ Leaves(r, "add_entry", "raised")
            /\ response[r].status = 404)
           => pc'[r] = "idle" /\ StoreUnchanged
        /\ (/\ Leaves(r, "add_entry", "handler")
            /\ \E c \in categories : c.id = request[r].category_id
            /\ WellFormed(request[r]))
           => pc'[r] = "commit" /\ StoreUnchanged
        /\ Leaves(r, "add_entry", "commit")
           => /\ \E e \in time_entries' \ time_entries :
                    /\ time_entries' = time_entries \cup {e}
                    /\ e.id \notin { x.id : x \in time_entries }
                    /\ e.date = request[r].date_value
                    /\ e.category_id = request[r].category_id
                    /\ e.duration_hours = request[r].duration_hours
              /\ categories' = categories
              /\ pc'[r] = "done"
              /\ response'[r] =
                    [status |-> 303,
                     location |-> <<"/?day=", request[r].date_value>>]]_vars

C4_Witness ==
    \E r, q \in Reqs :
        /\ pc[r] = "done" /\ request[r].op = "add_entry"
        /\ response[r].status = 303
        /\ \E e \in time_entries :
              /\ e.date = request[r].date_value
              /\ e.category_id = request[r].category_id
              /\ e.duration_hours = request[r].duration_hours
        /\ pc[q] = "raised" /\ request[q].op = "add_entry"
        /\ response[q].status = 404

\* C5: every mutating request with well-formed fields either succeeds and
\* answers 303 or fails before mutating and answers 4xx, under every
\* interleaving of two requests, two add_category requests with one name that
\* both pass the pre-check included.
C5_SucceedsOr4xx ==
    \A r \in Reqs :
        (pc[r] \in {"done", "raised"} /\ WellFormed(request[r]))
        => \/ pc[r] = "done" /\ response[r].status = 303
           \/ pc[r] = "raised" /\ response[r].status \in 400..499

\* C6: a deleted id never exists again in its table: no id removed by
\* delete_entry or delete_category is the id of a stored row.
C6_DeletedIdsStayGone ==
    /\ { c.id : c \in categories } \cap deleted.categories = {}
    /\ { e.id : e \in time_entries } \cap deleted.time_entries = {}

NewIds(before, after) == { x.id : x \in after } \ { x.id : x \in before }

\* C6 as amended: a row id comes to exist only by the commit of an add_entry or
\* add_category request, which gives the new row an id greater than every id
\* then stored in its table (so never the id of a stored row, but possibly the
\* id of a row deleted before); a delete leaves the ids it removed absent.
C6_NewIdAboveStoredIds ==
    [][/\ \A x \in NewIds(categories, categories') :
            /\ \E r \in Reqs : Leaves(r, "add_category", "commit")
            /\ \A c \in categories : x > c.id
       /\ \A x \in NewIds(time_entries, time_entries') :
            /\ \E r \in Reqs : Leaves(r, "add_entry", "commit")
            /\ \A e \in time_entries : x > e.id
       /\ \A x \in deleted.categories' \ deleted.categories :
            \A c \in categories' : c.id # x
       /\ \A x \in deleted.time_entries' \ deleted.time_entries :
            \A e \in time_entries' : e.id # x]_vars

C6_Witness ==
    /\ deleted.kept
    /\ \E c \in categories : c.id \in deleted.categories
    /\ \E e \in time_entries : e.id \in deleted.time_entries

\* C7: an add_entry request whose start_time_str or end_time_str is non-empty
\* and no HH:MM time of day is answered with a client error (4xx) and writes
\* nothing.
C7_MalformedTimeIs4xx ==
    \A r \in Reqs :
        (/\ request[r].op = "add_entry"
         /\ ~WellFormed(request[r])
         /\ pc[r] \in {"commit", "done", "raised"})
        => pc[r] = "raised" /\ response[r].status \in 400..499

\* C8: the day list of calendar_view is exactly the dates of the month, the
\* 1st to the last in ascending order: 28 or 29 for February by the leap-year
\* rule, 30 or 31 otherwise; December ends on 31 December of the same year.
DaysOfMonth(year, month) ==
    IF month = 2
    THEN IF (year % 4 = 0 /\ year % 100 # 0) \/ year % 400 = 0 THEN 29 ELSE 28
    ELSE IF month \in {4, 6, 9, 11} THEN 30 ELSE 31

C8_MonthDays ==
    calendar.month # 0
    => /\ Len(calendar.days) = DaysOfMonth(calendar.year, calendar.month)
       /\ \A i \in 1..Len(calendar.days) :
             calendar.days[i] = <<calendar.year, calendar.month, i>>

C8_Witness ==
    /\ calendar.year = 2023 /\ calendar.month = 12
    /\ Len(calendar.days) = 31
    /\ calendar.days[31] = <<2023, 12, 31>>

\* C9: the per-category aggregate of stats_view holds exactly the categories
\* with an entry dated within [start, end], each with the sum of the
\* duration_hours of its entries in the range, in ascending order of name;
\* cat_labels and cat_values have one length.
EntriesInRange(c) ==
    { e \in time_entries :
        e.category_id = c.id /\ stats.start <= e.date /\ e.date <= stats.end }

\* The sum of the durations of a set of entries, by counting the entries of
\* each duration.
HoursOf(rows) ==
    LET n(h) == h * Cardinality({ e \in rows : e.duration_hours = h })
        upto[h \in 0..MaxDuration] == IF h = 0 THEN 0 ELSE upto[h - 1] + n(h)
    IN  upto[MaxDuration]

C9_PerCategory ==
    stats # NoStats
    => /\ Len(stats.cat_labels) = Len(stats.cat_values)
       /\ { stats.cat_labels[i] : i \in 1..Len(stats.cat_labels) } =
             { c.name : c \in { x \in categories : EntriesInRange(x) # {} } }
       /\ \A i, j \in 1..Len(stats.cat_labels) :
             i < j => stats.cat_labels[i] < stats.cat_labels[j]
       /\ \A i \in 1..Len(stats.cat_labels) :
             \A c \in categories :
                c.name = stats.cat_labels[i]
                => stats.cat_values[i] = HoursOf(EntriesInRange(c))

C9_Witness ==
    /\ stats # NoStats
    /\ Len(stats.cat_labels) = 1
    /\ stats.cat_values[1] > 0
    /\ \E c \in categories :
          /\ c.name # stats.cat_labels[1]
          /\ EntriesInRange(c) = {}
          /\ \E e \in time_entries : e.category_id = c.id

\* C10: the session get_db opens for a request is open as long as the handler
\* runs, is closed when the request ends, whether the handler returned, raised
\* an HTTPException or failed in its commit, and every open session is closed
\* in the end.
C10_SessionClosed ==
    /\ [](\A r \in Reqs :
            /\ pc[r] = "idle" => session[r] # "open"
            /\ pc[r] # "idle" => session[r] = "open")
    /\ \A r \in Reqs : (session[r] = "open") ~> (session[r] = "closed")

C10_Witness ==
    \E r, q \in Reqs :
        /\ pc[r] = "idle" /\ session[r] = "closed"
        /\ pc[q] = "raised" /\ response[q].status = 500 /\ session[q] = "open"

====
